---- MODULE Spec2Model ----
(***************************************************************************)
(* Model of the incremental-load orchestration of dbt-sandbox:             *)
(*   src/functions/load-data/bq-load-file/main.py   (start_file_load)      *)
(* One job name's Datastore record, the bucket's objects under the job's   *)
(* prefix, a clock, and the invocations of start_file_load, each split at  *)
(* its blocking external calls.                                            *)
(*   src/functions/load-data/bq-start-load/main.py  (bq_start_extraction)  *)
(* CONFIG_JOB_NAMES, one trigger and its enqueue calls.                    *)
(*                                                                         *)
(* Time is counted in ticks, TicksPerSecond ticks to a second, so that the *)
(* sub-second part of a datetime exists and int(x.timestamp()) truncates.  *)
(***************************************************************************)
EXTENDS Integers, Sequences, FiniteSets, TLC

\* ---------------------------------------------------------------- bounds
TicksPerSecond == 2
SubTicks == 2
MaxInstant == 3
NumBlobs == 1
NumProcs == 2
MaxListed == 3
MaxNameChars == 3

\* ------------------------------------------------------- program constants
\* timedelta(minutes=5)
DebounceMinutes == 5
Window == DebounceMinutes * 60 * TicksPerSecond

\* Python's None, for an optional datetime
None == -1

JobName == "shopify_orders"
NoJobName == "None"
AttemptKey == "last_attempted_grab"
WatermarkKey == "last_modified_time"

\* the instants the clock can show: SubTicks successive ticks from each
\* multiple of the debounce window, so that "exactly five minutes later" and
\* "one tick less" both occur, and so do two instants of one second and two
\* of different seconds
Instants == { (i \div SubTicks) * Window + (i % SubTicks) : i \in 0..MaxInstant }

Procs == 1..NumProcs
BlobNames == 1..NumBlobs

\* request_json.get("backfill"): true, false, or the key omitted
BackfillValues == {"true", "false", "omitted"}
Requests == [job_name : {JobName, NoJobName}, backfill : BackfillValues]

\* what reading gs://<GLOBAL_STORAGE_BUCKET>/config/config.json can do
ConfigDocStates == {"ok", "missing", "download_failed", "parse_failed", "job_not_found"}
\* what reading bq-schemas/<schema_file_location> can do
SchemaDocStates == {"ok", "missing", "download_failed", "invalid"}

\* the job's entry of the config document: the keys start_file_load reads
\* that decide its control flow
Configs ==
    { [schema_file_location |-> "schema.json", file_type |-> "json",
       create_behavior |-> "CREATE_IF_NEEDED", write_behavior |-> "WRITE_APPEND"],
      [schema_file_location |-> "", file_type |-> "csv",
       create_behavior |-> "None", write_behavior |-> "None"],
      [schema_file_location |-> "schema.json", file_type |-> "xml",
       create_behavior |-> "__doc__", write_behavior |-> "WRITE_TRUNCATE"],
      [schema_file_location |-> "", file_type |-> "json",
       create_behavior |-> "CREATE_ALWAYS", write_behavior |-> "None"],
      [schema_file_location |-> "", file_type |-> "json",
       create_behavior |-> "None", write_behavior |-> "WRITE_SOMETIMES"] }

NoConfig ==
    [schema_file_location |-> "", file_type |-> "",
     create_behavior |-> "None", write_behavior |-> "None"]

\* members of google.cloud.bigquery.enums
CreateDisposition == {"CREATE_IF_NEEDED", "CREATE_NEVER"}
WriteDisposition == {"WRITE_APPEND", "WRITE_TRUNCATE", "WRITE_EMPTY"}

\* names getattr finds on either class although they are no disposition: the
\* attributes every Python class has
ObjectAttributes == {"__doc__"}

VARIABLES
    now,      \* the clock, datetime.utcnow()
    store,    \* the Datastore entity ("data-pipelines", JobName)
    blobs,    \* blobs[n]: blob n's updated time, None when it does not exist
    inv,      \* inv[p]: the locals and position of invocation p
    prev,     \* the invocation that returned last, as its caller saw it
    loader,   \* what the warehouse loader has been given so far
    dispatch  \* bq-start-load: CONFIG_JOB_NAMES, the trigger and its tasks

vars == <<now, store, blobs, inv, prev, loader, dispatch>>

\* ----------------------------------------------------------------- store
\* an absent entity; get_entity returns None for it
NoEntity == [exists |-> FALSE, last_attempted_grab |-> None, last_modified_time |-> None]

\* DATASTORE_CLIENT.get(key)
get_entity == store

\* entity.get(key) if entity else None
EntityGet(entity, key) ==
    IF ~entity.exists THEN None
    ELSE IF key = AttemptKey THEN entity.last_attempted_grab
    ELSE entity.last_modified_time

get_last_modified_time(entity) ==
    IF entity.exists THEN entity.last_modified_time ELSE None

\* a put of a record holding the one key only, the other field lost
EntityUpdate_Clobber(entity, key, value) ==
    IF key = AttemptKey
    THEN [exists |-> TRUE, last_attempted_grab |-> value, last_modified_time |-> None]
    ELSE [exists |-> TRUE, last_attempted_grab |-> None, last_modified_time |-> value]

\* entity.update({key: value}) on the entity read, or on a new empty one
EntityUpdate(entity, key, value) ==
    IF key = AttemptKey
    THEN [exists |-> TRUE, last_attempted_grab |-> value,
          last_modified_time |-> entity.last_modified_time]
    ELSE [exists |-> TRUE, last_attempted_grab |-> entity.last_attempted_grab,
          last_modified_time |-> value]

\* ------------------------------------------------------------------ time
\* the comparison made on x.timestamp() itself, sub-second part kept
IntTimestamp_Exact(t) == t

\* int(x.timestamp()): whole seconds, the sub-second part dropped
IntTimestamp(t) == t \div TicksPerSecond

\* the debounce comparison with >= for >
TooSoon_Inclusive(last_attempted_grab, current_time) ==
    last_attempted_grab >= current_time - Window

\* last_attempted_grab.timestamp() > (current_time - timedelta(minutes=5)).timestamp()
TooSoon(last_attempted_grab, current_time) ==
    last_attempted_grab > current_time - Window

\* --------------------------------------------------------------- listing
\* f"gs://{bucket_name}/{blob.name}"
Uri(n) == <<"gs://", "bucket", "/", "prefix", n>>

\* the loop of list_blobs over the listing, its blobs from the n-th on still to
\* visit
RECURSIVE ListFrom(_, _, _)
ListFrom(n, listing, tsAfter) ==
    IF n > Len(listing) THEN <<>>
    ELSE IF listing[n] # None /\ IntTimestamp(listing[n]) > IntTimestamp(tsAfter)
         THEN <<Uri(n)>> \o ListFrom(n + 1, listing, tsAfter)
         ELSE ListFrom(n + 1, listing, tsAfter)

list_blobs(listing, tsAfter) == ListFrom(1, listing, tsAfter)

\* what start_file_load passes as list_file_names: the wildcard string or a list
Wildcard == [pattern |-> TRUE, uris |-> <<>>]
FileList(uris) == [pattern |-> FALSE, uris |-> uris]
NoBlobs == FileList(<<>>)

\* a length test that never sees an empty list
LenBlobs_NeverEmpty(b) == Len(b.uris) + 1

\* len(blobs_to_load): characters of the wildcard string "gs://b/p*" (never 0),
\* elements of the list
LenBlobs(b) == IF b.pattern THEN Len(<<"gs://", "bucket", "/", "prefix", "*">>) ELSE Len(b.uris)

\* ----------------------------------------------------------- invocations
IdleInv ==
    [pc |-> "idle", request |-> [job_name |-> NoJobName, backfill |-> "omitted"],
     current_time |-> None, config |-> NoConfig,
     entity |-> NoEntity, backfill_flag |-> "unset",
     value |-> None, got |-> NoEntity, put_entity |-> NoEntity, stamped |-> None,
     blobs_to_load |-> NoBlobs,
     result |-> "", outcome |-> "",
     puts |-> 0, lists |-> 0, loads |-> 0, loaded |-> NoBlobs,
     at_return |-> NoEntity]

NoPrev ==
    [called |-> FALSE, request |-> [job_name |-> NoJobName, backfill |-> "omitted"],
     current_time |-> None, stamped |-> None, outcome |-> ""]

\* the loader has been given nothing yet
NoLoads == [shipped |-> {}, failed |-> FALSE]

\* bq-start-load is not part of the runs of start_file_load alone
NotDeployed == [pc |-> "idle", CONFIG_JOB_NAMES |-> <<>>, tasks |-> <<>>, response |-> ""]

Running(p) == inv[p].pc \notin {"idle", "done"}

\* the invocation returns (or raises): its response and the record it leaves;
\* the locals it no longer needs are gone
Returned(frame, result, outcome, entity) ==
    [frame EXCEPT !.pc = "done", !.result = result, !.outcome = outcome,
                  !.at_return = entity, !.config = NoConfig,
                  !.value = None, !.got = NoEntity, !.put_entity = NoEntity]

Return(p, result, outcome, entity) == Returned(inv[p], result, outcome, entity)

\* before any invocation: the job's record is absent (never run), or it is
\* there from earlier runs, possibly with one date missing ("the date may
\* have been erased somehow", lines 96-98); the bucket is empty
Init ==
    /\ now = 0
    /\ store \in { NoEntity,
                   [exists |-> TRUE, last_attempted_grab |-> 0, last_modified_time |-> None],
                   [exists |-> TRUE, last_attempted_grab |-> None, last_modified_time |-> 0],
                   [exists |-> TRUE, last_attempted_grab |-> 0, last_modified_time |-> 0] }
    /\ blobs = [n \in BlobNames |-> None]
    /\ inv = [p \in Procs |-> IdleInv]
    /\ prev = NoPrev
    /\ loader = NoLoads
    /\ dispatch = NotDeployed


\* ------------------------------------------------------- start_file_load
\* request_json.get("backfill", True)
RequestBackfill_DefaultTrue(request) ==
    IF request.backfill = "omitted" THEN "true" ELSE request.backfill

\* request_json.get("backfill", False)
RequestBackfill(request) ==
    IF request.backfill = "omitted" THEN "false" ELSE request.backfill

\* "if last_modified_time and last_attempted_grab": both datetimes are there
BothPresent(entity) ==
    /\ get_last_modified_time(entity) # None
    /\ EntityGet(entity, AttemptKey) # None

\* the early "return None" of the debounce check
Rejected(entity, current_time) ==
    /\ BothPresent(entity)
    /\ TooSoon(EntityGet(entity, AttemptKey), current_time)

\* backfill_flag taken from the request in both branches
BackfillFlag_FromRequest(entity, request) == RequestBackfill(request)

\* backfill_flag as the if/else leaves it
BackfillFlag(entity, request) ==
    IF BothPresent(entity) THEN RequestBackfill(request) ELSE "true"

\* the attempt stamp written under the watermark's key
AttemptStampKey_Watermark == WatermarkKey

\* the watermark taken from the clock when the load has finished
WatermarkValue_Now(p) == now

\* line 112: set_entity_item(job_name, "last_attempted_grab", datetime.utcnow())
AttemptStampKey == AttemptKey

AttemptStampValue(p) == now

\* line 154: set_entity_item(job_name, "last_modified_time", current_time)
WatermarkValue(p) == inv[p].current_time

\* the wildcard taken whatever backfill_flag is
Selection_Wildcard(p) == Wildcard

\* lines 115-118: blobs_to_load
Selection(p) ==
    IF inv[p].backfill_flag = "true"
    THEN Wildcard
    ELSE FileList(list_blobs(blobs, get_last_modified_time(inv[p].entity)))

\* getattr(CreateDisposition, create_behavior) raises AttributeError
InvalidCreate(config) ==
    /\ config.create_behavior # "None"
    /\ config.create_behavior \notin CreateDisposition \cup ObjectAttributes

\* getattr(WriteDisposition, write_behavior) raises AttributeError
InvalidWrite(config) ==
    /\ config.write_behavior # "None"
    /\ config.write_behavior \notin WriteDisposition \cup ObjectAttributes

\* the config's create_behavior or write_behavior is not a disposition value
NotADisposition(config) ==
    \/ config.create_behavior \notin CreateDisposition \cup {"None"}
    \/ config.write_behavior \notin WriteDisposition \cup {"None"}

\* load_files_to_biquery raises ValueError("Please enter a valid file_type")
InvalidFileType(config) == config.file_type \notin {"json", "csv"}

\* the invocation that returned last, kept when a new one begins: what it was
\* asked, when it began, the stamp it wrote and how it ended
Retired ==
    IF \E q \in Procs : inv[q].pc = "done"
    THEN LET q == CHOOSE q \in Procs : inv[q].pc = "done"
         IN  [called |-> TRUE, request |-> inv[q].request,
              current_time |-> inv[q].current_time, stamped |-> inv[q].stamped,
              outcome |-> inv[q].outcome]
    ELSE prev

\* one invocation at a time: the runs of this specification do not overlap
NoneRunning == \A q \in Procs : ~Running(q)

\* the instance slot a new invocation gets: the first one not running
FreeSlot(p) == ~Running(p) /\ \A q \in Procs : q < p => Running(q)

\* a test for the empty string, which lets a request without the key through
MissingJobName_EmptyOnly(req) == req.job_name = ""

\* line 40: request_json.get("job_name") is None
MissingJobName(req) == req.job_name = NoJobName

\* lines 40-47: the request arrives; job_name missing returns at once
Arrived(req) ==
    IF MissingJobName(req)
    THEN [IdleInv EXCEPT !.pc = "done", !.request = req,
             !.result = "Please include job_name in request json.",
             !.outcome = "missing_job_name", !.at_return = store]
    ELSE [IdleInv EXCEPT !.pc = "get_config", !.request = req,
             !.current_time = now]

\* a request arrives while no invocation is running
Begin(p, req) ==
    /\ NoneRunning
    /\ FreeSlot(p)
    /\ inv' = [q \in Procs |-> IF q # p THEN IdleInv ELSE Arrived(req)]
    /\ UNCHANGED <<now, store, blobs, loader, dispatch>>

Invoke(p, req) ==
    /\ Begin(p, req)
    /\ UNCHANGED prev

\* a request arrives while another invocation may be running: the platform
\* starts an instance for it. Two overlapping invocations are followed: the
\* second one arrives before the first has returned, and no third one while
\* both run
InvokeOverlapping(p, req) ==
    /\ inv[p].pc = "idle"
    /\ \A q \in Procs : q < p => inv[q].pc # "idle"
    /\ \A q \in Procs : inv[q].pc # "done"
    /\ \A q, r \in Procs : (Running(q) /\ Running(r)) => q = r
    /\ inv' = [inv EXCEPT ![p] = Arrived(req)]
    /\ UNCHANGED <<now, store, blobs, prev, loader, dispatch>>

\* the same request sent twice: a first call, and when that one was an
\* accepted run (it stamped lastAttemptedAt), a second call with the same
\* request body, the first one remembered in prev
InvokeTwice(p, req) ==
    /\ ~prev.called
    /\ \A q \in Procs :
          inv[q].pc = "done" => (inv[q].stamped # None /\ req = inv[q].request)
    /\ Begin(p, req)
    /\ prev' = Retired

\* lines 51-83: get_config, then the validation of create/write behaviour
GetConfig(p, doc, config) ==
    /\ inv[p].pc = "get_config"
    /\ inv' = [inv EXCEPT ![p] =
         IF doc = "missing" THEN Return(p, "FileNotFoundError", "config_unavailable", store)
         ELSE IF doc = "download_failed" THEN Return(p, "DownloadError", "config_unavailable", store)
         ELSE IF doc = "parse_failed" THEN Return(p, "JSONDecodeError", "config_unavailable", store)
         ELSE IF doc = "job_not_found" THEN Return(p, "ValueError", "job_not_found", store)
         ELSE IF InvalidCreate(config)
              THEN Return(p, "AttributeError", "invalid_create", store)
         ELSE IF InvalidWrite(config)
              THEN Return(p, "AttributeError", "invalid_write", store)
         ELSE [inv[p] EXCEPT !.pc = "get_entity", !.config = config]]
    /\ UNCHANGED <<now, store, blobs, prev, loader, dispatch>>

\* lines 86-110: read the entity, debounce check, backfill_flag
ReadState(p) ==
    /\ inv[p].pc = "get_entity"
    /\ LET entity == get_entity
           read == [inv[p] EXCEPT !.entity = entity]
       IN  inv' = [inv EXCEPT ![p] =
             IF Rejected(entity, inv[p].current_time)
             THEN Returned([read EXCEPT !.backfill_flag = BackfillFlag(entity, inv[p].request)],
                           "None", "too_soon", store)
             ELSE [read EXCEPT !.pc = "stamp",
                               !.backfill_flag = BackfillFlag(entity, inv[p].request)]]
    /\ UNCHANGED <<now, store, blobs, prev, loader, dispatch>>

\* line 112, set_entity_item lines 172-176: utcnow() is taken, the entity is
\* read (or a new one made) and updated in memory
StampRead(p) ==
    /\ inv[p].pc = "stamp"
    /\ inv' = [inv EXCEPT ![p].pc = "stamp_put",
                          ![p].value = AttemptStampValue(p),
                          ![p].got = get_entity,
                          ![p].put_entity =
                              EntityUpdate(get_entity, AttemptStampKey, AttemptStampValue(p))]
    /\ UNCHANGED <<now, store, blobs, prev, loader, dispatch>>

\* set_entity_item line 177: DATASTORE_CLIENT.put(entity), the whole record
StampPut(p) ==
    /\ inv[p].pc = "stamp_put"
    /\ store' = inv[p].put_entity
    /\ inv' = [inv EXCEPT ![p].pc = "select", ![p].stamped = inv[p].value,
                          ![p].puts = inv[p].puts + 1]
    /\ UNCHANGED <<now, blobs, prev, loader, dispatch>>

\* lines 115-122: wildcard or list_blobs; nothing to load returns
Select(p) ==
    /\ inv[p].pc = "select"
    /\ LET sel == Selection(p)
           listed == [inv[p] EXCEPT !.blobs_to_load = sel,
                         !.lists = IF inv[p].backfill_flag = "true" THEN 0 ELSE 1]
       IN  inv' = [inv EXCEPT ![p] =
             IF LenBlobs(sel) = 0
             THEN Returned(listed, "There are no new blobs to load for shopify_orders",
                           "no_new_blobs", store)
             ELSE [listed EXCEPT !.pc = "get_schema"]]
    /\ UNCHANGED <<now, store, blobs, prev, loader, dispatch>>

\* line 124: get_schema(schema_file_location) if schema_file_location else None;
\* its exceptions are outside the try and leave start_file_load
GetSchema(p, doc) ==
    /\ inv[p].pc = "get_schema"
    /\ inv[p].config.schema_file_location = "" => doc = "ok"
    /\ inv' = [inv EXCEPT ![p] =
         IF doc = "missing" THEN Return(p, "FileNotFoundError", "schema_unavailable", store)
         ELSE IF doc = "download_failed" THEN Return(p, "DownloadError", "schema_unavailable", store)
         ELSE IF doc = "invalid" THEN Return(p, "SchemaError", "schema_unavailable", store)
         ELSE [inv[p] EXCEPT !.pc = "load"]]
    /\ UNCHANGED <<now, store, blobs, prev, loader, dispatch>>

\* lines 126-152: load_files_to_biquery inside try/except Exception; it raises
\* on a bad file_type, or when the load job fails
Loading(p, job_ok) ==
    /\ inv[p].pc = "load"
    /\ InvalidFileType(inv[p].config) => ~job_ok
    /\ LET called == [inv[p] EXCEPT !.loads = inv[p].loads + 1,
                                    !.loaded = inv[p].blobs_to_load]
       IN  inv' = [inv EXCEPT ![p] =
             IF job_ok
             THEN [called EXCEPT !.pc = "commit"]
             ELSE Returned(called, "None", "load_failed", store)]
    /\ UNCHANGED <<now, store, blobs, prev, dispatch>>

Load(p, job_ok) ==
    /\ Loading(p, job_ok)
    /\ UNCHANGED loader

\* the objects a load job reads: those the wildcard matches, or those the
\* listed URIs name, each as it is in the bucket when the job runs
Sources(b) ==
    { n \in BlobNames : blobs[n] # None /\ (b.pattern \/ \E i \in 1..Len(b.uris) : b.uris[i] = Uri(n)) }

\* the same call, the loader's side of it kept: the object versions a
\* successful load job has read, and whether a load job has failed
LoadLogged(p, job_ok) ==
    /\ Loading(p, job_ok)
    /\ loader' = IF job_ok
                 THEN [loader EXCEPT !.shipped =
                          @ \cup { <<n, blobs[n]>> : n \in Sources(inv[p].blobs_to_load) }]
                 ELSE [loader EXCEPT !.failed = TRUE]

\* line 154, set_entity_item lines 172-176
CommitRead(p) ==
    /\ inv[p].pc = "commit"
    /\ inv' = [inv EXCEPT ![p].pc = "commit_put",
                          ![p].value = WatermarkValue(p),
                          ![p].got = get_entity,
                          ![p].put_entity =
                              EntityUpdate(get_entity, WatermarkKey, WatermarkValue(p))]
    /\ UNCHANGED <<now, store, blobs, prev, loader, dispatch>>

\* set_entity_item line 177, then line 155
CommitPut(p) ==
    /\ inv[p].pc = "commit_put"
    /\ store' = inv[p].put_entity
    /\ inv' = [inv EXCEPT ![p] =
         Returned([inv[p] EXCEPT !.puts = inv[p].puts + 1],
                  "Success for shopify_orders", "success", inv[p].put_entity)]
    /\ UNCHANGED <<now, blobs, prev, loader, dispatch>>

\* ----------------------------------------------------------- environment
\* the clock moves on, never back
Tick(t) ==
    /\ t > now
    /\ now' = t
    /\ UNCHANGED <<store, blobs, inv, prev, loader, dispatch>>

\* an object under the prefix is uploaded or overwritten: blob.updated = now
TouchBlob(n) ==
    /\ blobs[n] # now
    /\ blobs' = [blobs EXCEPT ![n] = now]
    /\ UNCHANGED <<now, store, inv, prev, loader, dispatch>>

Next ==
    \/ \E p \in Procs, req \in Requests : Invoke(p, req)
    \/ \E p \in Procs, doc \in ConfigDocStates, config \in Configs : GetConfig(p, doc, config)
    \/ \E p \in Procs : ReadState(p)
    \/ \E p \in Procs : StampRead(p)
    \/ \E p \in Procs : StampPut(p)
    \/ \E p \in Procs : Select(p)
    \/ \E p \in Procs, doc \in SchemaDocStates : GetSchema(p, doc)
    \/ \E p \in Procs, job_ok \in BOOLEAN : Load(p, job_ok)
    \/ \E p \in Procs : CommitRead(p)
    \/ \E p \in Procs : CommitPut(p)
    \/ \E t \in Instants : Tick(t)
    \/ \E n \in BlobNames : TouchBlob(n)

Spec == Init /\ [][Next]_vars

\* two successive invocations, the first one remembered in prev
NextTwice ==
    \/ \E p \in Procs, req \in Requests : InvokeTwice(p, req)
    \/ \E p \in Procs, doc \in ConfigDocStates, config \in Configs : GetConfig(p, doc, config)
    \/ \E p \in Procs : ReadState(p)
    \/ \E p \in Procs : StampRead(p)
    \/ \E p \in Procs : StampPut(p)
    \/ \E p \in Procs : Select(p)
    \/ \E p \in Procs, doc \in SchemaDocStates : GetSchema(p, doc)
    \/ \E p \in Procs, job_ok \in BOOLEAN : Load(p, job_ok)
    \/ \E p \in Procs : CommitRead(p)
    \/ \E p \in Procs : CommitPut(p)
    \/ \E t \in Instants : Tick(t)
    \/ \E n \in BlobNames : TouchBlob(n)

SpecTwice == Init /\ [][NextTwice]_vars

\* runs for a job that has never run: the record is absent at first
InitFresh ==
    /\ Init
    /\ store = NoEntity

SpecFresh == InitFresh /\ [][Next]_vars

\* the same runs, the loader's side of every load kept
NextLoads ==
    \/ \E p \in Procs, req \in Requests : Invoke(p, req)
    \/ \E p \in Procs, doc \in ConfigDocStates, config \in Configs : GetConfig(p, doc, config)
    \/ \E p \in Procs : ReadState(p)
    \/ \E p \in Procs : StampRead(p)
    \/ \E p \in Procs : StampPut(p)
    \/ \E p \in Procs : Select(p)
    \/ \E p \in Procs, doc \in SchemaDocStates : GetSchema(p, doc)
    \/ \E p \in Procs, job_ok \in BOOLEAN : LoadLogged(p, job_ok)
    \/ \E p \in Procs : CommitRead(p)
    \/ \E p \in Procs : CommitPut(p)
    \/ \E t \in Instants : Tick(t)
    \/ \E n \in BlobNames : TouchBlob(n)

SpecLoads == InitFresh /\ [][NextLoads]_vars

\* overlapping invocations for the job: requests that name the job, with
\* backfill true or omitted (false is read as omitted is, line 100), and a
\* config entry that passes the validation and needs no schema document
RaceRequests == { req \in Requests : ~MissingJobName(req) /\ req.backfill # "false" }
RaceConfigs ==
    { config \in Configs : /\ config.schema_file_location = ""
                           /\ ~NotADisposition(config)
                           /\ ~InvalidFileType(config) }

NextRace ==
    \/ \E p \in Procs, req \in RaceRequests : InvokeOverlapping(p, req)
    \/ \E p \in Procs, config \in RaceConfigs : GetConfig(p, "ok", config)
    \/ \E p \in Procs : ReadState(p)
    \/ \E p \in Procs : StampRead(p)
    \/ \E p \in Procs : StampPut(p)
    \/ \E p \in Procs : Select(p)
    \/ \E p \in Procs : GetSchema(p, "ok")
    \/ \E p \in Procs, job_ok \in BOOLEAN : Load(p, job_ok)
    \/ \E p \in Procs : CommitRead(p)
    \/ \E p \in Procs : CommitPut(p)
    \/ \E t \in Instants : Tick(t)

SpecRace == Init /\ [][NextRace]_vars

\* list_blobs alone: an Incremental run about to list (line 118), for every
\* listing of up to MaxListed objects and every watermark
InitList ==
    /\ now \in Instants
    /\ blobs \in UNION { [1..k -> { t \in Instants \cup {None} : t <= now }] : k \in 0..MaxListed }
    /\ \E lmt \in { t \in Instants : t <= now } :
          /\ store = [exists |-> TRUE, last_attempted_grab |-> now, last_modified_time |-> lmt]
          /\ inv = [p \in Procs |->
                      IF p = 1
                      THEN [IdleInv EXCEPT !.pc = "select",
                               !.request = [job_name |-> JobName, backfill |-> "false"],
                               !.current_time = now, !.entity = store,
                               !.backfill_flag = "false", !.stamped = now, !.puts = 1]
                      ELSE IdleInv]
    /\ prev = NoPrev
    /\ loader = NoLoads
    /\ dispatch = NotDeployed

NextList == \E p \in Procs : Select(p)

SpecList == InitList /\ [][NextList]_vars

\* ---------------------------------------------------------- bq-start-load
\* src/functions/load-data/bq-start-load/main.py. A str is the sequence of
\* its characters, which is what iterating over it yields.
Chars == {"a", "b", ",", " "}

\* values of os.environ["CONFIG_JOB_NAMES"]
EnvStrings == UNION { [1..n -> Chars] : n \in 0..MaxNameChars }

\* pull.strip() for one element of the iteration over the str: one character
Strip(pull) == IF pull = " " THEN <<>> ELSE <<pull>>

\* line 28: PULL_DICT = [pull.strip() for pull in CONFIG_JOB_NAMES]
PULL_DICT(CONFIG_JOB_NAMES) ==
    [i \in 1..Len(CONFIG_JOB_NAMES) |-> Strip(CONFIG_JOB_NAMES[i])]

\* lines 41-44: one run_in_executor call for each element of PULL_DICT
Submitted(job_name) ==
    [job_name |-> job_name, pc |-> "submitted", status |-> "NotQueued",
     attempts |-> 0, payload |-> <<>>, result |-> ""]

\* a join that is over when the first call has returned
Joined_First(tasks) ==
    tasks = <<>> \/ \E i \in 1..Len(tasks) : tasks[i].pc = "returned"

\* line 46: await asyncio.gather(*order_task_values) is over when every call
\* has returned
Joined(tasks) == \A i \in 1..Len(tasks) : tasks[i].pc = "returned"

\* lines 30-46: bq_start_extraction, schedule_objects up to the gather
Trigger ==
    /\ dispatch.pc \in {"idle", "done"}
    /\ dispatch' = [dispatch EXCEPT
          !.pc = "gather",
          !.response = "",
          !.tasks = [i \in 1..Len(PULL_DICT(dispatch.CONFIG_JOB_NAMES)) |->
                        Submitted(PULL_DICT(dispatch.CONFIG_JOB_NAMES)[i])]]
    /\ UNCHANGED <<now, store, blobs, inv, prev, loader>>

\* lines 56-79: an executor thread takes the call; "if not job_name" returns
\* None, else the task and its payload {"job_name": job_name} are built
EnqueueStart(i) ==
    /\ dispatch.pc = "gather"
    /\ i \in 1..Len(dispatch.tasks)
    /\ dispatch.tasks[i].pc = "submitted"
    /\ dispatch' = [dispatch EXCEPT !.tasks[i] =
          IF dispatch.tasks[i].job_name = <<>>
          THEN [@ EXCEPT !.pc = "returned", !.result = "None"]
          ELSE [@ EXCEPT !.pc = "running", !.payload = dispatch.tasks[i].job_name]]
    /\ UNCHANGED <<now, store, blobs, inv, prev, loader>>

\* lines 81-106: the id token and client.create_task; any exception is caught
\* and the failure string returned
EnqueueFinish(i, created) ==
    /\ dispatch.pc = "gather"
    /\ i \in 1..Len(dispatch.tasks)
    /\ dispatch.tasks[i].pc = "running"
    /\ dispatch' = [dispatch EXCEPT !.tasks[i] =
          IF created
          THEN [@ EXCEPT !.pc = "returned", !.attempts = @ + 1, !.status = "Queued",
                         !.result = "Success: Task created for BQ Job"]
          ELSE [@ EXCEPT !.pc = "returned", !.attempts = @ + 1, !.status = "QueueFailed",
                         !.result = "Failure: Task not created for BQ Job"]]
    /\ UNCHANGED <<now, store, blobs, inv, prev, loader>>

\* lines 46-48: the gather is over, the response is returned
Gather ==
    /\ dispatch.pc = "gather"
    /\ Joined(dispatch.tasks)
    /\ dispatch' = [dispatch EXCEPT !.pc = "done", !.response = "All object pulls queued"]
    /\ UNCHANGED <<now, store, blobs, inv, prev, loader>>

\* the function is deployed with some CONFIG_JOB_NAMES and not yet triggered
InitDispatch ==
    /\ now = 0
    /\ store = NoEntity
    /\ blobs = [n \in BlobNames |-> None]
    /\ inv = [p \in Procs |-> IdleInv]
    /\ prev = NoPrev
    /\ loader = NoLoads
    /\ \E names \in EnvStrings : dispatch = [NotDeployed EXCEPT !.CONFIG_JOB_NAMES = names]

NextDispatch ==
    \/ Trigger
    \/ \E i \in 1..MaxNameChars : EnqueueStart(i)
    \/ \E i \in 1..MaxNameChars, created \in BOOLEAN : EnqueueFinish(i, created)
    \/ Gather

SpecDispatch == InitDispatch /\ [][NextDispatch]_vars

\* ================================================================ claims
Done(p) == inv[p].pc = "done"

\* invocation p has read the entity and passed or failed the debounce check
Decided(p) ==
    \/ inv[p].pc \in {"stamp", "stamp_put", "select", "get_schema", "load",
                      "commit", "commit_put"}
    \/ /\ Done(p)
       /\ inv[p].outcome \in {"too_soon", "no_new_blobs", "schema_unavailable",
                              "load_failed", "success"}

\* invocation p has made its selection (lines 115-118)
Selected(p) ==
    \/ inv[p].pc \in {"get_schema", "load", "commit", "commit_put"}
    \/ /\ Done(p)
       /\ inv[p].outcome \in {"no_new_blobs", "schema_unavailable", "load_failed", "success"}

\* the record as invocation p found it has both timestamps
HadBoth(p) ==
    /\ inv[p].entity.exists
    /\ inv[p].entity.last_attempted_grab # None
    /\ inv[p].entity.last_modified_time # None

\* C1: with both timestamps present and lastAttemptedAt later than five
\* minutes before the invocation's time, start_file_load returns None, has
\* written nothing to the record and has not called the loader; with
\* lastAttemptedAt five minutes before or earlier, the run is accepted.
C1_DebounceNoOp ==
    \A p \in Procs :
        (Decided(p) /\ HadBoth(p)) =>
            IF inv[p].current_time - inv[p].entity.last_attempted_grab < Window
            THEN /\ Done(p)
                 /\ inv[p].result = "None"
                 /\ inv[p].outcome = "too_soon"
                 /\ inv[p].puts = 0
                 /\ inv[p].loads = 0
                 /\ inv[p].lists = 0
                 /\ inv[p].at_return = inv[p].entity
            ELSE /\ inv[p].outcome # "too_soon"
                 /\ Done(p) => inv[p].puts >= 1

\* a rejected invocation, some time after the attempt it was too close to
C1_Witness ==
    \E p \in Procs :
        /\ Done(p) /\ HadBoth(p)
        /\ inv[p].outcome = "too_soon"
        /\ inv[p].current_time > inv[p].entity.last_attempted_grab

\* C2: with lastWatermark or lastAttemptedAt absent (or no record), the mode
\* is Backfill whatever the request's backfill flag: the wildcard pattern is
\* what is selected and what the loader gets, and nothing is listed.
C2_ForcedBackfill ==
    \A p \in Procs :
        (Decided(p) /\ ~HadBoth(p)) =>
            /\ inv[p].backfill_flag = "true"
            /\ inv[p].outcome \notin {"too_soon", "no_new_blobs"}
            /\ inv[p].lists = 0
            /\ Selected(p) => inv[p].blobs_to_load = Wildcard
            /\ inv[p].loads > 0 => inv[p].loaded = Wildcard

\* a forced backfill that reached the loader although the request said false
C2_Witness ==
    \E p \in Procs :
        /\ Done(p) /\ ~HadBoth(p)
        /\ inv[p].request.backfill = "false"
        /\ inv[p].outcome = "success"
        /\ inv[p].loaded = Wildcard

\* C3: two successive accepted run attempts for the job (each stamped
\* lastAttemptedAt) are at least five minutes apart, also when the earlier
\* one ended in a failure.
C3_DebounceSpacing ==
    \A p \in Procs :
        (prev.called /\ prev.stamped # None /\ inv[p].stamped # None) =>
            inv[p].stamped - prev.stamped >= Window

\* C4: when the loader raises, start_file_load returns None, lastWatermark is
\* what it was before the run (absent included) and lastAttemptedAt is the
\* value the run stamped.
C4_LoadFailure ==
    \A p \in Procs :
        (Done(p) /\ inv[p].outcome = "load_failed") =>
            /\ inv[p].result = "None"
            /\ inv[p].loads = 1
            /\ inv[p].at_return.exists
            /\ inv[p].at_return.last_modified_time = get_last_modified_time(inv[p].entity)
            /\ inv[p].stamped # None
            /\ inv[p].stamped >= inv[p].current_time
            /\ inv[p].at_return.last_attempted_grab = inv[p].stamped

\* a failed load of a job that had a watermark
C4_Witness ==
    \E p \in Procs :
        /\ Done(p) /\ inv[p].outcome = "load_failed"
        /\ HadBoth(p)
        /\ inv[p].stamped > inv[p].entity.last_attempted_grab

\* C5: after an accepted run whose load succeeds, in either mode,
\* lastWatermark is the time taken at the start of the invocation.
C5_WatermarkIsStartTime ==
    \A p \in Procs :
        (Done(p) /\ inv[p].outcome = "success") =>
            /\ inv[p].at_return.last_modified_time = inv[p].current_time
            /\ store.last_modified_time = inv[p].current_time

\* an incremental run that succeeded after the clock had moved on, having
\* loaded a file whose modification time is not the start time
C5_Witness ==
    \E p \in Procs :
        /\ Done(p) /\ inv[p].outcome = "success"
        /\ inv[p].backfill_flag = "false"
        /\ now > inv[p].current_time
        /\ \E n \in BlobNames :
              /\ blobs[n] \notin {None, inv[p].current_time}
              /\ inv[p].loaded = FileList(<<Uri(n)>>)

\* C6: an accepted Incremental run that selects zero files returns the "no
\* new blobs" message without calling the loader; lastAttemptedAt is this
\* run's stamp and lastWatermark is unchanged.
C6_EmptySelection ==
    \A p \in Procs :
        (Selected(p) /\ inv[p].backfill_flag # "true" /\ inv[p].blobs_to_load.uris = <<>>) =>
            /\ Done(p)
            /\ inv[p].outcome = "no_new_blobs"
            /\ inv[p].result = "There are no new blobs to load for shopify_orders"
            /\ inv[p].loads = 0
            /\ inv[p].stamped # None
            /\ inv[p].at_return.last_attempted_grab = inv[p].stamped
            /\ inv[p].at_return.last_modified_time = inv[p].entity.last_modified_time

\* an empty incremental selection while an object exists under the prefix
C6_Witness ==
    \E p \in Procs :
        /\ Done(p) /\ inv[p].outcome = "no_new_blobs"
        /\ inv[p].request.backfill = "omitted"
        /\ \E n \in BlobNames : blobs[n] # None

\* the URIs in a list
UriSet(uris) == { uris[i] : i \in 1..Len(uris) }

\* C7: list_blobs returns exactly the URIs of the objects whose last-modified
\* time, in whole seconds, is greater than lastWatermark in whole seconds,
\* each once.
C7_ListBlobs ==
    [][ \A p \in Procs :
          (inv[p].pc = "select" /\ inv'[p].lists = 1) =>
              LET tsAfter == inv[p].entity.last_modified_time
                  uris == inv'[p].blobs_to_load.uris
              IN  /\ ~inv'[p].blobs_to_load.pattern
                  /\ UriSet(uris) =
                       { Uri(n) : n \in { m \in DOMAIN blobs :
                            /\ blobs[m] # None
                            /\ blobs[m] \div TicksPerSecond > tsAfter \div TicksPerSecond } }
                  /\ Len(uris) = Cardinality(UriSet(uris)) ]_vars

\* a listing of two objects modified after the watermark, one of them within
\* the watermark's second and left out, the other in a later second and kept
C7_Witness ==
    \E p \in Procs :
        /\ Selected(p) /\ inv[p].lists = 1
        /\ \E n, m \in DOMAIN blobs :
              /\ blobs[n] # None
              /\ blobs[n] > inv[p].entity.last_modified_time
              /\ Uri(n) \notin UriSet(inv[p].blobs_to_load.uris)
              /\ blobs[m] > blobs[n]
              /\ inv[p].blobs_to_load.uris = <<Uri(m)>>

\* C8: over successive runs, with a clock that never goes back, lastWatermark
\* once set is never unset and never takes a smaller value.
C8_WatermarkMonotone ==
    [][ store.last_modified_time # None =>
            store'.last_modified_time >= store.last_modified_time ]_vars

\* a successful run that moved an existing watermark forward
C8_Witness ==
    \E p \in Procs :
        /\ Done(p) /\ inv[p].outcome = "success"
        /\ inv[p].entity.last_modified_time # None
        /\ store.last_modified_time > inv[p].entity.last_modified_time

\* the second call follows a first call with the same request that was an
\* accepted run and ended well (its load succeeded, or it selected no file);
\* it begins five minutes or more after the first call's stamp, and every
\* object is older than the first call
SecondCall(p) ==
    /\ prev.called
    /\ prev.stamped # None
    /\ prev.outcome \in {"success", "no_new_blobs"}
    /\ Decided(p)
    /\ inv[p].request = prev.request
    /\ inv[p].current_time - prev.stamped >= Window
    /\ \A n \in BlobNames : blobs[n] = None \/ blobs[n] < prev.current_time

\* an Incremental selection of zero files and no loader invocation
SelectsNothing(p) ==
    /\ inv[p].backfill_flag = "false"
    /\ inv[p].loads = 0
    /\ inv[p].pc \notin {"get_schema", "load", "commit", "commit_put"}
    /\ Selected(p) => /\ inv[p].outcome = "no_new_blobs"
                      /\ inv[p].lists = 1
                      /\ inv[p].blobs_to_load = NoBlobs

C10_UnavailableNoWrite ==
    \A p \in Procs :
        (Done(p) /\ inv[p].outcome \in {"config_unavailable", "schema_unavailable"}) =>
            /\ inv[p].puts = 0
            /\ inv[p].stamped = None

\* C17: nothing but the timestamp comparison guards the job: of two
\* overlapping invocations that both read the record with both fields present
\* and lastAttemptedAt five minutes old or older, before either has written
\* its stamp, neither is rejected, and both go on to stamp and select. The
\* interleaving in which both then call the loader is C17_Witness.
C17_DebounceRace ==
    \A p, q \in Procs :
        (/\ p # q
         /\ Decided(p) /\ Decided(q)
         /\ HadBoth(p)
         /\ inv[q].entity = inv[p].entity
         /\ inv[p].current_time - inv[p].entity.last_attempted_grab >= Window
         /\ inv[q].current_time - inv[q].entity.last_attempted_grab >= Window) =>
            /\ inv[p].outcome # "too_soon"
            /\ inv[q].outcome # "too_soon"
            /\ inv[p].pc \notin {"stamp", "stamp_put"} => inv[p].stamped # None
            /\ inv[q].pc \notin {"stamp", "stamp_put"} => inv[q].stamped # None

\* both invocations are running, each has read the record as it was before
\* the other's stamp, each has stamped it and each has had its loader call
\* return
C17_Witness ==
    \E p, q \in Procs :
        /\ p # q
        /\ inv[p].pc = "commit" /\ inv[q].pc = "commit"
        /\ HadBoth(p)
        /\ inv[q].entity = inv[p].entity
        /\ inv[p].current_time - inv[p].entity.last_attempted_grab >= Window
        /\ inv[q].current_time - inv[q].entity.last_attempted_grab >= Window
        /\ inv[p].stamped # None /\ inv[q].stamped # None
        /\ inv[p].loads = 1 /\ inv[q].loads = 1

\* invocation p's set_entity_item puts its record in this step
Puts(p) ==
    /\ inv[p].pc \in {"stamp_put", "commit_put"}
    /\ inv'[p].pc # inv[p].pc

\* the put leaves the field it does not set as it was stored just before
KeepsOtherField(p) ==
    /\ store'.exists
    /\ inv[p].pc = "stamp_put" => store'.last_modified_time = store.last_modified_time
    /\ inv[p].pc = "commit_put" => store'.last_attempted_grab = store.last_attempted_grab

\* C18 as stated: in every interleaving of the set_entity_item calls of
\* overlapping invocations, a put leaves every field other than the one it
\* sets with the value stored immediately before the put.
C18_NoClobber ==
    [][ \A p \in Procs : Puts(p) => KeepsOtherField(p) ]_vars

\* C18 amended: the put creates the record if absent and leaves every other
\* field as stored immediately before it whenever the record is still as the
\* call read it (no other put came between its read and its put).
C18_NoClobberSinceRead ==
    [][ \A p \in Procs : (Puts(p) /\ inv[p].got = store) => KeepsOtherField(p) ]_vars

\* the watermark put of one invocation has kept the stamp that the other,
\* still running, wrote after the first one's own stamp
C18_Witness ==
    \E p, q \in Procs :
        /\ p # q
        /\ Done(p) /\ inv[p].outcome = "success"
        /\ Running(q) /\ inv[q].stamped # None
        /\ inv[q].stamped > inv[p].stamped
        /\ store.last_attempted_grab = inv[q].stamped
        /\ store.last_modified_time = inv[p].current_time

\* C19: over non-overlapping runs whose loads all succeed, every object whose
\* last-modified second is at or below the stored lastWatermark's second has
\* been read by the load job of some run; looked at when an Incremental run
\* has ended well, so that the runs that could have loaded it are over.
C19_NoFileSkipped ==
    \A p \in Procs :
        (/\ Done(p)
         /\ inv[p].backfill_flag = "false"
         /\ inv[p].outcome \in {"success", "no_new_blobs"}
         /\ store.last_modified_time # None
         /\ ~loader.failed) =>
            \A n \in BlobNames :
                (blobs[n] # None
                   /\ blobs[n] \div TicksPerSecond
                         <= store.last_modified_time \div TicksPerSecond) =>
                    <<n, blobs[n]>> \in loader.shipped

C11_ConfigErrorNoState ==
    \A p \in Procs :
        /\ (Done(p) /\ inv[p].outcome \in {"job_not_found", "invalid_create", "invalid_write"}) =>
              /\ inv[p].result = IF inv[p].outcome = "job_not_found"
                                 THEN "ValueError" ELSE "AttributeError"
              /\ inv[p].puts = 0
              /\ inv[p].stamped = None
              /\ inv[p].lists = 0
              /\ inv[p].loads = 0
              /\ inv[p].at_return = store
        /\ (Running(p) /\ inv[p].pc # "get_config" /\ NotADisposition(inv[p].config)) =>
              /\ inv[p].pc \notin {"stamp_put", "load", "commit", "commit_put"}
              /\ inv[p].puts = 0
              /\ inv[p].lists = 0
              /\ inv[p].loads = 0

\* C12: a request without job_name gets the fixed string at once: no config
\* fetch, no read and no write of the record, no listing, no loader call.
C12_MissingJobName ==
    \A p \in Procs :
        (inv[p].pc # "idle" /\ inv[p].request.job_name = NoJobName) =>
            /\ Done(p)
            /\ inv[p].result = "Please include job_name in request json."
            /\ inv[p].outcome = "missing_job_name"
            /\ inv[p].config = NoConfig
            /\ inv[p].entity = NoEntity
            /\ inv[p].puts = 0
            /\ inv[p].stamped = None
            /\ inv[p].lists = 0
            /\ inv[p].loads = 0
            /\ inv[p].at_return = store

\* such a request, with backfill asked for, for a job that has a record
C12_Witness ==
    \E p \in Procs :
        /\ Done(p) /\ inv[p].outcome = "missing_job_name"
        /\ inv[p].request.backfill = "true"
        /\ store.exists /\ store.last_modified_time # None

\* C13: whichever enqueues fail, when bq_start_extraction returns its
\* response is "All object pulls queued", every call of the gather has
\* returned, and every entry with a name has had its one enqueue attempt end
\* with its own outcome; there is no response before that.
C13_IsolationAndJoin ==
    /\ dispatch.response # "" => dispatch.pc = "done"
    /\ dispatch.pc = "done" =>
          /\ dispatch.response = "All object pulls queued"
          /\ Len(dispatch.tasks) = Len(dispatch.CONFIG_JOB_NAMES)
          /\ \A i \in 1..Len(dispatch.tasks) :
                /\ dispatch.tasks[i].pc = "returned"
                /\ dispatch.tasks[i].job_name # <<>> =>
                      /\ dispatch.tasks[i].attempts = 1
                      /\ dispatch.tasks[i].status \in {"Queued", "QueueFailed"}
                      /\ dispatch.tasks[i].result =
                            IF dispatch.tasks[i].status = "Queued"
                            THEN "Success: Task created for BQ Job"
                            ELSE "Failure: Task not created for BQ Job"

\* the response after a failed enqueue, a later entry queued all the same
C13_Witness ==
    /\ dispatch.pc = "done"
    /\ \E i, j \in 1..Len(dispatch.tasks) :
          /\ i < j
          /\ dispatch.tasks[i].status = "QueueFailed"
          /\ dispatch.tasks[j].status = "Queued"

\* the enqueue attempts of a trigger, in the order of the list: their payloads
AttemptedPayloads ==
    LET made == SelectSeq(dispatch.tasks, LAMBDA t : t.attempts > 0)
    IN  [i \in 1..Len(made) |-> made[i].payload]

\* CONFIG_JOB_NAMES holds one job name: no comma and no blank in it
OneJobName ==
    /\ dispatch.CONFIG_JOB_NAMES # <<>>
    /\ \A i \in 1..Len(dispatch.CONFIG_JOB_NAMES) :
          dispatch.CONFIG_JOB_NAMES[i] \notin {",", " "}

\* C14: when the trigger has returned, one enqueue attempt has been made per
\* configured job name, with that whole job name as payload, none made twice;
\* stated for a CONFIG_JOB_NAMES that holds one job name.
C14_OneTaskPerJobName ==
    (dispatch.pc = "done" /\ OneJobName) =>
        /\ AttemptedPayloads = <<dispatch.CONFIG_JOB_NAMES>>
        /\ \A i \in 1..Len(dispatch.tasks) : dispatch.tasks[i].attempts <= 1

\* C15: with both timestamps present and the invocation outside the debounce
\* window, the mode is Backfill (the wildcard, nothing listed) when the
\* request's backfill is true, and Incremental (a listing) when it is false
\* or omitted.
C15_ModeWhenComplete ==
    \A p \in Procs :
        (Decided(p) /\ HadBoth(p)
           /\ inv[p].current_time - inv[p].entity.last_attempted_grab >= Window) =>
            IF inv[p].request.backfill = "true"
            THEN /\ inv[p].backfill_flag = "true"
                 /\ inv[p].lists = 0
                 /\ Selected(p) => inv[p].blobs_to_load = Wildcard
                 /\ inv[p].loads > 0 => inv[p].loaded = Wildcard
            ELSE /\ inv[p].backfill_flag = "false"
                 /\ Selected(p) => /\ inv[p].lists = 1
                                   /\ ~inv[p].blobs_to_load.pattern
                 /\ inv[p].loads > 0 => ~inv[p].loaded.pattern

\* an Incremental run with the flag omitted that gave the loader a file list
C15_Witness ==
    \E p \in Procs :
        /\ Done(p) /\ HadBoth(p)
        /\ inv[p].request.backfill = "omitted"
        /\ inv[p].outcome = "success"
        /\ inv[p].loaded.uris # <<>>

\* C16: in every step, an invocation that has listed or called the loader
\* has written lastAttemptedAt before; one that reads or writes the record
\* for the watermark has had its loader call return successfully; and
\* lastWatermark changes only in the put of such an invocation.
C16_StepOrdering ==
    [][ /\ \A p \in Procs :
              /\ (inv'[p].pc \in {"select", "get_schema", "load"}
                     \/ inv'[p].lists > 0 \/ inv'[p].loads > 0) =>
                    (inv'[p].puts >= 1 /\ inv'[p].stamped # None)
              /\ (inv'[p].pc \in {"commit", "commit_put"} \/ inv'[p].puts >= 2) =>
                    (inv'[p].loads = 1 /\ inv'[p].outcome \in {"", "success"})
              /\ (inv'[p].loads > 0 /\ inv'[p].outcome = "load_failed") => inv'[p].puts = 1
        /\ store'.last_modified_time # store.last_modified_time =>
              \E p \in Procs :
                  /\ inv[p].pc = "commit_put"
                  /\ inv[p].loads = 1
                  /\ inv'[p].outcome = "success" ]_vars

\* a successful Incremental run: stamp, listing, load, then the watermark
C16_Witness ==
    \E p \in Procs :
        /\ Done(p) /\ inv[p].outcome = "success"
        /\ inv[p].puts = 2 /\ inv[p].lists = 1 /\ inv[p].loads = 1
        /\ store.last_modified_time = inv[p].current_time
        /\ store.last_attempted_grab > inv[p].current_time

====
